---- MODULE Spec2Model ----
(***************************************************************************)
(* A model of minimonk: the typed facade over a monk collection.           *)
(*   - idify / id: identifier coercion (three module variants);            *)
(*   - Collection.findSmartPage: count-then-find paging;                   *)
(*   - the single-document and *ById operations with their `doc || null`;  *)
(*   - count, exists, insert, find, findAndMap, update, remove and drop.   *)
(* The store (the monk collection the facade delegates to) is modelled as  *)
(* an ordered sequence of documents answering one request per step.        *)
(***************************************************************************)
EXTENDS Integers, Sequences, FiniteSets, TLC

VARIABLES
    store,   \* the collection's documents, in natural (insertion) order
    call,    \* the API call in flight and its arguments, or Idle
    pc,      \* where the call stands: idle, count, find, await, resolved, rejected
    issued,  \* the requests this call has sent to the store, in order
    total,   \* findSmartPage: the count already obtained, or -1
    reply,   \* the store's raw answer to the last request of this call
    result,  \* what the call's promise settled with
    dirty    \* a write reached the store while this call was in flight

vars == <<store, call, pc, issued, total, reply, result, dirty>>

------------------------------------------------------------------------------
(* Bounds of the model. *)

\* Documents in the collection the API calls start from.
MaxDocs == 3

\* Documents in the collection a paging call shares with other clients.
MaxShared == 4

MaxStrLen == 25

MaxLimit == 2

MaxPage == 3

------------------------------------------------------------------------------
(* JavaScript values. A string whose characters matter is a sequence of     *)
(* one-character strings; Len works on both forms.                          *)

Null == [t |-> "null"]

Undefined == [t |-> "undefined"]

Num(n) == [t |-> "number", n |-> n]

Str(s) == [t |-> "string", s |-> s]

ObjectId(hex) == [t |-> "ObjectId", hex |-> hex]

Truthy(v) ==
    CASE v.t = "null" -> FALSE
      [] v.t = "undefined" -> FALSE
      [] v.t = "number" -> v.n # 0
      [] v.t = "string" -> Len(v.s) > 0
      [] OTHER -> TRUE

Lower(c) ==
    CASE c = "A" -> "a" [] c = "B" -> "b" [] c = "C" -> "c"
      [] c = "D" -> "d" [] c = "E" -> "e" [] c = "F" -> "f"
      [] OTHER -> c

HexChars ==
    {"0", "1", "2", "3", "4", "5", "6", "7", "8", "9",
     "a", "b", "c", "d", "e", "f", "A", "B", "C", "D", "E", "F"}

\* checkForHexRegExp = /^[0-9a-fA-F]{24}$/
IsHex24(s) == Len(s) = 24 /\ \A i \in 1..Len(s) : s[i] \in HexChars

Returned(v) == [ok |-> TRUE, value |-> v]

Thrown(name, msg) == [ok |-> FALSE, error |-> [name |-> name, msg |-> msg]]

------------------------------------------------------------------------------
(* Identifier coercion.                                                     *)

\* ObjectID.isValid(id) of bson, as called by idify: a string is valid when it
\* has 12 characters (the raw bytes) or 24 hexadecimal characters.
isValid(v) ==
    CASE v.t = "null" -> FALSE
      [] v.t = "undefined" -> FALSE
      [] v.t = "number" -> TRUE
      [] v.t = "string" -> Len(v.s) = 12 \/ IsHex24(v.s)
      [] v.t = "ObjectId" -> TRUE
      [] OTHER -> FALSE

\* ObjectID.createFromHexString(string) of bson, as called by idify: it throws
\* for anything whose length is not 24.
createFromHexString(v) ==
    IF v.t = "string" /\ Len(v.s) = 24
    THEN Returned(ObjectId([i \in 1..24 |-> Lower(v.s[i])]))
    ELSE Thrown("TypeError",
                <<"Argument passed in must be a single String of 12 bytes or a string of 24 hex characters">>)

\* minimonk.ts idify, part_000 id:  str && ObjectID.isValid(str) ? create : null
idifyLenient(v) ==
    IF Truthy(v) /\ isValid(v) THEN createFromHexString(v) ELSE Returned(Null)

\* part_001 idify
idifyStrict(v) ==
    IF v.t = "ObjectId" THEN Returned(v)
    ELSE IF v.t # "string" THEN Returned(Null)
    ELSE IF ~isValid(v)
         THEN Thrown("Error", <<"Invalid hex value <", v.s, "> passed to idify">>)
         ELSE createFromHexString(v)

Variants == {"minimonk", "part_000", "part_001"}

idify(variant, v) ==
    IF variant = "part_001" THEN idifyStrict(v) ELSE idifyLenient(v)

------------------------------------------------------------------------------
(* Inputs of the coercion: strings of every length up to MaxStrLen made of   *)
(* one repeated character, optionally with one other character at the first  *)
(* or last position.                                                         *)

MkStr(n, c, p, b) == [i \in 1..n |-> IF i = p THEN b ELSE c]

SampleStrings ==
    { MkStr(n, c, p, b) : n \in 0..MaxStrLen, c \in {"a", "F", "7"},
                          p \in {0, 1, 24}, b \in {"g", "-"} }

IdInputs ==
    {Null, Undefined} \cup { Str(s) : s \in SampleStrings }
        \cup { ObjectId(MkStr(24, c, 0, c)) : c \in {"a", "7"} }

Idle == [op |-> "idle"]

NoReply == Returned(Undefined)

Init ==
    /\ store = <<>>
    /\ call = Idle
    /\ pc = "idle"
    /\ issued = <<>>
    /\ total = -1
    /\ reply = NoReply
    /\ result = Null
    /\ dirty = FALSE

Settle(r) ==
    /\ result' = r
    /\ pc' = IF r.ok THEN "resolved" ELSE "rejected"

Coerce(variant, v) ==
    /\ pc = "idle"
    /\ call' = [op |-> "idify", variant |-> variant, str |-> v]
    /\ Settle(idify(variant, v))
    /\ UNCHANGED <<store, issued, total, reply, dirty>>

Return ==
    /\ pc \in {"resolved", "rejected"}
    /\ call' = Idle
    /\ pc' = "idle"
    /\ issued' = <<>>
    /\ total' = -1
    /\ reply' = NoReply
    /\ result' = Null
    /\ dirty' = FALSE
    /\ UNCHANGED store

NextId ==
    \/ \E variant \in Variants, v \in IdInputs : Coerce(variant, v)
    \/ Return

SpecId == Init /\ [][NextId]_vars

------------------------------------------------------------------------------
(* The store: documents, filters and the requests the facade delegates.      *)

Digit(i) == <<"1", "2", "3", "4", "5", "6", "7", "8", "9">>[i]

OidHex(i) == [j \in 1..24 |-> IF j = 24 THEN Digit(i) ELSE "0"]

\* The documents that can be inserted: distinct _id and name (the names do not
\* follow the identifiers' order), two tags, two texts.
Catalogue(i) ==
    [t    |-> "object",
     _id  |-> ObjectId(OidHex(i)),
     name |-> IF i % 2 = 1 THEN i + 1 ELSE i - 1,
     tag  |-> IF i % 3 = 0 THEN "b" ELSE "a",
     text |-> IF i % 2 = 0 THEN "world" ELSE "hello"]

\* Filters as the query documents the code builds:
\*   {}            [k |-> "all"]
\*   {tag: v}      [k |-> "eq", field |-> "tag", value |-> v]
\*   {_id: id}     [k |-> "id", id |-> id]
\*   {$text: {$search: s}}   [k |-> "text", search |-> s]
\*   {$and: [..]}  [k |-> "and", args |-> <<..>>]
All == [k |-> "all"]

Eq(field, value) == [k |-> "eq", field |-> field, value |-> value]

Bool(b) == [t |-> "boolean", b |-> b]

\* A variant of IdFilter that coerces the id first.
IdFilterCoerced(id) ==
    [k |-> "id", id |-> IF idifyLenient(id).ok THEN idifyLenient(id).value ELSE Null]

\* { _id: id }
IdFilter(id) == [k |-> "id", id |-> id]

Text(search) == [k |-> "text", search |-> search]

And(args) == [k |-> "and", args |-> args]

\* monk casts the _id of a query: a 24-hex string is read as that identifier.
CastId(id) ==
    IF id.t = "string" /\ IsHex24(id.s)
    THEN ObjectId([i \in 1..24 |-> Lower(id.s[i])])
    ELSE id

RECURSIVE Matches(_, _)
Matches(d, f) ==
    CASE f.k = "all" -> TRUE
      [] f.k = "eq" -> d[f.field] = f.value
      [] f.k = "id" -> CastId(f.id) = d._id
      [] f.k = "text" -> f.search.t = "string" /\ f.search.s = d.text
      [] f.k = "and" -> \A i \in 1..Len(f.args) : Matches(d, f.args[i])

Matching(docs, f) == SelectSeq(docs, LAMBDA d : Matches(d, f))

Min(a, b) == IF a < b THEN a ELSE b

Max(a, b) == IF a > b THEN a ELSE b

NoOptions == [none |-> TRUE]

HasSort(opts) == "sort" \in DOMAIN opts

\* The store rejects a sort direction other than 1 and -1.
ValidOptions(opts) == HasSort(opts) => opts.sort.dir \in {1, -1}

Ordered(docs, opts) ==
    IF HasSort(opts)
    THEN SortSeq(docs, LAMBDA x, y :
            IF opts.sort.dir = 1 THEN x[opts.sort.field] < y[opts.sort.field]
                                 ELSE x[opts.sort.field] > y[opts.sort.field])
    ELSE docs

\* collection.count(filter, options): a limit caps the count.
StoreCount(docs, f, opts) ==
    IF "limit" \in DOMAIN opts /\ opts.limit > 0
    THEN Min(opts.limit, Len(Matching(docs, f)))
    ELSE Len(Matching(docs, f))

\* collection.find(filter, options). A string as options names the one field
\* to return beside _id; skip and limit default to none; a limit of 0 is no limit.
Project(d, opts) ==
    IF "fields" \in DOMAIN opts
    THEN [x \in {"t", "_id", opts.fields} |-> d[x]]
    ELSE d

RECURSIVE ProjectAll(_, _)
ProjectAll(docs, opts) ==
    IF docs = <<>> THEN <<>>
    ELSE <<Project(Head(docs), opts)>> \o ProjectAll(Tail(docs), opts)

StoreFind(docs, f, opts) ==
    LET o == Ordered(Matching(docs, f), opts)
        skip == IF "skip" \in DOMAIN opts THEN opts.skip ELSE 0
        limit == IF "limit" \in DOMAIN opts THEN opts.limit ELSE 0
        k == SubSeq(o, skip + 1, Len(o))
        r == IF limit = 0 THEN k ELSE SubSeq(k, 1, Min(limit, Len(k)))
    IN IF "fields" \in DOMAIN opts THEN ProjectAll(r, opts) ELSE r

\* Identifiers order by their bytes; the catalogue's differ in the last digit.
OidOrd(id) == CHOOSE i \in 1..9 : OidHex(i) = id.hex

OrderedOne(docs, opts) ==
    IF HasSort(opts)
    THEN SortSeq(docs, LAMBDA x, y : OidOrd(x._id) > OidOrd(y._id))
    ELSE docs

\* The position in docs of the document a single-document request acts on, or 0.
Target(docs, f, opts) ==
    LET m == OrderedOne(Matching(docs, f), opts)
    IN IF m = <<>> THEN 0 ELSE CHOOSE j \in 1..Len(docs) : docs[j] = m[1]

ApplySet(d, set) == [d EXCEPT !.tag = set.tag]

RemoveAt(docs, j) == SubSeq(docs, 1, j - 1) \o SubSeq(docs, j + 1, Len(docs))

\* collection.update(filter, update, options): every matching document with
\* options.multi, the first one otherwise.
RECURSIVE SetAll(_, _, _)
SetAll(docs, f, set) ==
    IF docs = <<>> THEN <<>>
    ELSE <<IF Matches(Head(docs), f) THEN ApplySet(Head(docs), set) ELSE Head(docs)>>
            \o SetAll(Tail(docs), f, set)

IsMulti(opts) == "multi" \in DOMAIN opts /\ opts.multi

StoreUpdate(docs, f, u, opts) ==
    IF IsMulti(opts) THEN SetAll(docs, f, u.set)
    ELSE LET j == Target(docs, f, NoOptions)
         IN IF j = 0 THEN docs ELSE [docs EXCEPT ![j] = ApplySet(docs[j], u.set)]

\* UpdateResult: n documents matched, nModified of them changed.
UpdateResult(docs, after, f, opts) ==
    [ok |-> 1,
     nModified |-> Cardinality({j \in 1..Len(docs) : docs[j] # after[j]}),
     n |-> IF IsMulti(opts) THEN Len(Matching(docs, f))
                            ELSE Min(1, Len(Matching(docs, f)))]

\* collection.remove(filter, options): every matching document, or the first
\* one with options.multi === false.
StoreRemove(docs, f, opts) ==
    IF "multi" \in DOMAIN opts /\ ~opts.multi
    THEN LET j == Target(docs, f, NoOptions)
         IN IF j = 0 THEN docs ELSE RemoveAt(docs, j)
    ELSE SelectSeq(docs, LAMBDA d : ~Matches(d, f))

RemoveResult(docs, after) ==
    [deletedCount |-> Len(docs) - Len(after),
     result |-> [n |-> Len(docs) - Len(after), ok |-> 1]]

\* collection.insert(document): the document goes last in natural order; the
\* unique index on _id refuses a document whose identifier is already stored.
HasId(docs, id) == \E j \in 1..Len(docs) : docs[j]._id = id

DuplicateKey == Thrown("MongoError", <<"E11000 duplicate key error">>)

StoreInsert(docs, d) == IF HasId(docs, d._id) THEN docs ELSE Append(docs, d)

\* What the driver can fail with: propagated as it is.
StoreErrors ==
    {Thrown("MongoError", <<"connection closed">>),
     Thrown("MongoError", <<"bad query">>)}

Request(op, f, opts) == [op |-> op, filter |-> f, options |-> opts]

------------------------------------------------------------------------------
(* Collection.findSmartPage                                                  *)

\* Variants of RootFilter with a slip in the search test.
RootFilterAlwaysText(filter, search) == And(<<filter, Text(search)>>)

RootFilterAnyString(filter, search) ==
    And(<<filter>> \o (IF search.t = "string" THEN <<Text(search)>> ELSE <<>>))

\* const rootFilter = {$and: [filter, ...(search ? [{$text: {$search: search}}] : [])]}
RootFilter(filter, search) ==
    And(<<filter>> \o (IF Truthy(search) THEN <<Text(search)>> ELSE <<>>))

\* Variants of FindOptions: the direction not tested; the skip one page too far.
FindOptionsSortFieldOnly(sort, sortOrder, limit, page) ==
    IF Truthy(sort)
    THEN [sort |-> [field |-> sort.s,
                    dir |-> IF sortOrder.t = "number" THEN sortOrder.n ELSE 0],
          skip |-> (page - 1) * limit, limit |-> limit]
    ELSE [skip |-> (page - 1) * limit, limit |-> limit]

FindOptionsSkipPage(sort, sortOrder, limit, page) ==
    IF Truthy(sort) /\ Truthy(sortOrder)
    THEN [sort |-> [field |-> sort.s, dir |-> sortOrder.n],
          skip |-> page * limit, limit |-> limit]
    ELSE [skip |-> page * limit, limit |-> limit]

\* {...(sort && sortOrder && {sort: {[sort]: sortOrder}}), skip: (page - 1) * limit, limit}
FindOptions(sort, sortOrder, limit, page) ==
    IF Truthy(sort) /\ Truthy(sortOrder)
    THEN [sort |-> [field |-> sort.s, dir |-> sortOrder.n],
          skip |-> (page - 1) * limit, limit |-> limit]
    ELSE [skip |-> (page - 1) * limit, limit |-> limit]

\* A variant of PageResult that reconciles the total with the page it got.
PageResultReconciled(t, items) == [total |-> Max(t, Len(items)), items |-> items]

PageResult(t, items) == [total |-> t, items |-> items]

\* A variant of Rejected that swallows the failure into an empty page.
RejectedSwallowed(e) == Returned([total |-> 0, items |-> <<>>])

\* An awaited request that rejects: nothing catches it, the call rejects with it.
Rejected(e) == e

FindSmartPage(filter, search, sort, sortOrder, limit, page) ==
    /\ pc = "idle"
    /\ call' = [op |-> "findSmartPage", filter |-> filter, search |-> search,
                sort |-> sort, sortOrder |-> sortOrder, limit |-> limit,
                page |-> page, rootFilter |-> RootFilter(filter, search)]
    /\ issued' = <<Request("count", RootFilter(filter, search), NoOptions)>>
    /\ pc' = "count"
    /\ dirty' = FALSE
    /\ UNCHANGED <<store, total, reply, result>>

\* await this.collection.count(rootFilter) resolves; find is issued next.
CountDone ==
    /\ pc = "count"
    /\ total' = StoreCount(store, call.rootFilter, NoOptions)
    /\ issued' = Append(issued,
            Request("find", call.rootFilter,
                    FindOptions(call.sort, call.sortOrder, call.limit, call.page)))
    /\ pc' = "find"
    /\ UNCHANGED <<store, call, reply, result, dirty>>

\* await this.collection.count(rootFilter) rejects: the async function rejects.
CountFail(e) ==
    /\ pc = "count"
    /\ reply' = e
    /\ Settle(Rejected(e))
    /\ UNCHANGED <<store, call, issued, total, dirty>>

\* await this.collection.find(rootFilter, options) resolves.
FindDone ==
    /\ pc = "find"
    /\ ValidOptions(issued[2].options)
    /\ reply' = Returned(StoreFind(store, issued[2].filter, issued[2].options))
    /\ Settle(Returned(PageResult(total, reply'.value)))
    /\ UNCHANGED <<store, call, issued, total, dirty>>

FindFail(e) ==
    /\ pc = "find"
    /\ reply' = e
    /\ Settle(Rejected(e))
    /\ UNCHANGED <<store, call, issued, total, dirty>>

------------------------------------------------------------------------------
(* Other clients of the same collection.                                     *)

\* Each is another client's insert, update, remove or drop reaching the store
\* in one request, at any moment: before, during or after a call of this client,
\* a settled call not yet observed included.

InFlight == pc \in {"count", "find", "await"}

Written ==
    /\ dirty' = (dirty \/ (InFlight /\ store' # store))
    /\ UNCHANGED <<call, pc, issued, total, reply, result>>

ConcurrentInsert(i) ==
    /\ store' = StoreInsert(store, Catalogue(i))
    /\ Written

ConcurrentUpdate(f, u, opts) ==
    /\ store' = StoreUpdate(store, f, u, opts)
    /\ Written

ConcurrentRemove(f, opts) ==
    /\ store' = StoreRemove(store, f, opts)
    /\ Written

ConcurrentDrop ==
    /\ store' = <<>>
    /\ Written

Sets == {[tag |-> "a"], [tag |-> "b"]}

\* What other clients write: they insert the oldest document again or a new
\* one, retag all documents, remove the oldest document by its identifier or
\* all documents of tag "b", or drop.
ConcurrentInserts == {1, MaxShared + 1}

ConcurrentUpdates == {<<All, [multi |-> TRUE]>>}

ConcurrentRemoves ==
    {<<IdFilter(Catalogue(1)._id), [multi |-> FALSE]>>, <<Eq("tag", "b"), NoOptions>>}

UpdateOptions == {NoOptions, [multi |-> TRUE]}

RemoveOptions == {NoOptions, [multi |-> FALSE]}

Filters == {All, Eq("tag", "a")}

Limits == 0..MaxLimit

Pages == 1..MaxPage

Next ==
    \/ \E filter \in Filters, search \in {Null, Str("hello")},
          s \in {<<Null, Null>>, <<Str("name"), Num(1)>>, <<Str("name"), Num(-1)>>},
          limit \in Limits, page \in Pages :
            FindSmartPage(filter, search, s[1], s[2], limit, page)
    \/ CountDone
    \/ \E e \in StoreErrors : CountFail(e)
    \/ FindDone
    \/ \E e \in StoreErrors : FindFail(e)
    \/ Return
    \/ \E i \in ConcurrentInserts : ConcurrentInsert(i)
    \/ \E w \in ConcurrentUpdates :
          ConcurrentUpdate(w[1], [set |-> [tag |-> "b"]], w[2])
    \/ \E w \in ConcurrentRemoves : ConcurrentRemove(w[1], w[2])
    \/ ConcurrentDrop

SharedStore == [i \in 1..MaxShared |-> Catalogue(i)]

InitShared ==
    /\ store = SharedStore
    /\ call = Idle
    /\ pc = "idle"
    /\ issued = <<>>
    /\ total = -1
    /\ reply = NoReply
    /\ result = Null
    /\ dirty = FALSE

Spec == InitShared /\ [][Next]_vars

(* Every shape of the arguments, on a collection nobody else writes to.      *)

FullStore == [i \in 1..MaxDocs |-> Catalogue(i)]

InitCompose ==
    /\ store = FullStore
    /\ call = Idle
    /\ pc = "idle"
    /\ issued = <<>>
    /\ total = -1
    /\ reply = NoReply
    /\ result = Null
    /\ dirty = FALSE

Searches == {Null, Undefined, Str(""), Str("hello"), Str("world")}

Sorts == {Null, Undefined, Str(""), Str("name")}

SortOrders == {Null, Undefined, Num(0), Num(1), Num(-1), Num(2), Num(-2)}

NextCompose ==
    \/ \E filter \in Filters \cup {Eq("tag", "b")}, search \in Searches,
          sort \in Sorts, sortOrder \in SortOrders,
          limit \in Limits, page \in Pages :
            FindSmartPage(filter, search, sort, sortOrder, limit, page)
    \/ CountDone
    \/ \E e \in StoreErrors : CountFail(e)
    \/ FindDone
    \/ \E e \in StoreErrors : FindFail(e)
    \/ Return

SpecCompose == InitCompose /\ [][NextCompose]_vars

------------------------------------------------------------------------------
(* The single-document and *ById operations.                                 *)

\* A variant of OrNull that hands the driver's answer through.
OrNullRaw(doc) == doc

\* .then(doc => doc || null)
OrNull(doc) == IF Truthy(doc) THEN doc ELSE Null

\* .then(count => !!count)
NotNot(count) == Bool(Truthy(count))

UpdateRequest(f, u, opts) ==
    [op |-> "findOneAndUpdate", filter |-> f, update |-> u, options |-> opts]

Await(c, r) ==
    /\ pc = "idle"
    /\ call' = c
    /\ issued' = <<r>>
    /\ pc' = "await"
    /\ dirty' = FALSE
    /\ UNCHANGED <<store, total, reply, result>>

ExistsById(id) ==
    Await([op |-> "existsById", id |-> id],
          Request("count", IdFilter(id), [limit |-> 1]))

Count(filter, options) ==
    Await([op |-> "count", filter |-> filter],
          Request("count", filter, options))

Exists(filter) ==
    Await([op |-> "exists", filter |-> filter],
          Request("count", filter, [limit |-> 1]))

Insert(document) ==
    Await([op |-> "insert", document |-> document],
          [op |-> "insert", document |-> document, options |-> NoOptions])

Find(filter, options) ==
    Await([op |-> "find", filter |-> filter],
          Request("find", filter, options))

FindAndMap(filter, key) ==
    Await([op |-> "findAndMap", filter |-> filter, key |-> key],
          Request("find", filter, [fields |-> key]))

Update(filter, update, options) ==
    Await([op |-> "update", filter |-> filter, update |-> update],
          [op |-> "update", filter |-> filter, update |-> update,
           options |-> options])

Remove(filter, options) ==
    Await([op |-> "remove", filter |-> filter],
          Request("remove", filter, options))

\* part_001 only
Drop ==
    Await([op |-> "drop"], [op |-> "drop"])

FindOne(filter, options) ==
    Await([op |-> "findOne", filter |-> filter],
          Request("findOne", filter, options))

FindById(id, options) ==
    Await([op |-> "findById", id |-> id],
          Request("findOne", IdFilter(id), options))

FindLastOne(filter) ==
    Await([op |-> "findLastOne", filter |-> filter],
          Request("findOne", filter,
                  [sort |-> [field |-> "_id", dir |-> -1], limit |-> 1]))

FindOneAndUpdate(filter, update, options) ==
    Await([op |-> "findOneAndUpdate", filter |-> filter, update |-> update],
          UpdateRequest(filter, update, options))

FindByIdAndSet(id, set, options) ==
    Await([op |-> "findByIdAndSet", id |-> id, set |-> set],
          UpdateRequest(IdFilter(id), [set |-> set], options))

FindOneAndDelete(filter, options) ==
    Await([op |-> "findOneAndDelete", filter |-> filter],
          Request("findOneAndDelete", filter, options))

FindByIdAndDelete(id, options) ==
    Await([op |-> "findByIdAndDelete", id |-> id],
          Request("findOneAndDelete", IdFilter(id), options))

(* The store's answers to these requests. *)

\* The driver's answers for "no document".
Empties == {Null, Undefined}

CountReply ==
    /\ pc = "await"
    /\ issued[1].op = "count"
    /\ reply' = Returned(Num(StoreCount(store, issued[1].filter, issued[1].options)))
    /\ Settle(Returned(IF call.op = "count" THEN reply'.value
                                             ELSE NotNot(reply'.value)))
    /\ UNCHANGED <<store, call, issued, total, dirty>>

\* find resolves as answered; findAndMap: list.map(document => document[key])
RECURSIVE Pluck(_, _)
Pluck(list, key) ==
    IF list = <<>> THEN <<>> ELSE <<Head(list)[key]>> \o Pluck(Tail(list), key)

FindReply ==
    /\ pc = "await"
    /\ issued[1].op = "find"
    /\ reply' = Returned(StoreFind(store, issued[1].filter, issued[1].options))
    /\ Settle(Returned(IF call.op = "findAndMap"
                       THEN Pluck(reply'.value, call.key) ELSE reply'.value))
    /\ UNCHANGED <<store, call, issued, total, dirty>>

InsertReply ==
    /\ pc = "await"
    /\ issued[1].op = "insert"
    /\ store' = StoreInsert(store, issued[1].document)
    /\ reply' = IF HasId(store, issued[1].document._id)
                THEN DuplicateKey ELSE Returned(issued[1].document)
    /\ Settle(IF reply'.ok THEN reply' ELSE Rejected(reply'))
    /\ UNCHANGED <<call, issued, total, dirty>>

UpdateManyReply ==
    /\ pc = "await"
    /\ issued[1].op = "update"
    /\ store' = StoreUpdate(store, issued[1].filter, issued[1].update,
                            issued[1].options)
    /\ reply' = Returned(UpdateResult(store, store', issued[1].filter,
                                      issued[1].options))
    /\ Settle(reply')
    /\ UNCHANGED <<call, issued, total, dirty>>

RemoveReply ==
    /\ pc = "await"
    /\ issued[1].op = "remove"
    /\ store' = StoreRemove(store, issued[1].filter, issued[1].options)
    /\ reply' = Returned(RemoveResult(store, store'))
    /\ Settle(reply')
    /\ UNCHANGED <<call, issued, total, dirty>>

DropReply ==
    /\ pc = "await"
    /\ issued[1].op = "drop"
    /\ store' = <<>>
    /\ reply' = Returned(Bool(TRUE))
    /\ Settle(reply')
    /\ UNCHANGED <<call, issued, total, dirty>>

FindOneReply(empty) ==
    /\ pc = "await"
    /\ issued[1].op = "findOne"
    /\ LET j == Target(store, issued[1].filter, issued[1].options)
       IN reply' = Returned(IF j = 0 THEN empty ELSE store[j])
    /\ Settle(Returned(OrNull(reply'.value)))
    /\ UNCHANGED <<store, call, issued, total, dirty>>

UpdateReply(empty) ==
    /\ pc = "await"
    /\ issued[1].op = "findOneAndUpdate"
    /\ LET j == Target(store, issued[1].filter, issued[1].options)
       IN IF j = 0
          THEN reply' = Returned(empty) /\ store' = store
          ELSE /\ store' = [store EXCEPT ![j] = ApplySet(store[j], issued[1].update.set)]
               /\ reply' = Returned(store'[j])
    /\ Settle(Returned(OrNull(reply'.value)))
    /\ UNCHANGED <<call, issued, total, dirty>>

DeleteReply(empty) ==
    /\ pc = "await"
    /\ issued[1].op = "findOneAndDelete"
    /\ LET j == Target(store, issued[1].filter, issued[1].options)
       IN IF j = 0
          THEN reply' = Returned(empty) /\ store' = store
          ELSE /\ store' = RemoveAt(store, j)
               /\ reply' = Returned(store[j])
    /\ Settle(Returned(OrNull(reply'.value)))
    /\ UNCHANGED <<call, issued, total, dirty>>

AwaitFail(e) ==
    /\ pc = "await"
    /\ reply' = e
    /\ Settle(Rejected(e))
    /\ UNCHANGED <<store, call, issued, total, dirty>>

\* Identifiers as callers pass them: instances (one of no stored document),
\* the hex strings of stored documents, and strings of 0, 3, 12 and 24
\* characters that are not the hex form of an identifier of the catalogue.
Ids ==
    { Catalogue(i)._id : i \in 1..MaxDocs + 1 }
        \cup { Str(OidHex(i)) : i \in 1..MaxDocs }
        \cup { Str(MkStr(n, "a", p, "g")) : n \in {0, 3, 12, 24}, p \in {0, 24} }

ApiFilters == {All, Eq("tag", "a"), Eq("tag", "b"), Eq("tag", "c")}

NextApi ==
    \/ \E filter \in ApiFilters : Count(filter, NoOptions)
    \/ \E filter \in ApiFilters : Exists(filter)
    \/ \E i \in 1..MaxDocs : Insert(Catalogue(i))
    \/ \E filter \in ApiFilters : Find(filter, NoOptions)
    \/ \E filter \in ApiFilters, key \in {"tag", "name"} : FindAndMap(filter, key)
    \/ \E filter \in ApiFilters, set \in Sets, opts \in UpdateOptions :
          Update(filter, [set |-> set], opts)
    \/ \E filter \in ApiFilters, opts \in RemoveOptions : Remove(filter, opts)
    \/ Drop
    \/ FindReply
    \/ InsertReply
    \/ UpdateManyReply
    \/ RemoveReply
    \/ DropReply
    \/ \E id \in Ids : ExistsById(id)
    \/ \E filter \in ApiFilters : FindOne(filter, NoOptions)
    \/ \E id \in Ids : FindById(id, NoOptions)
    \/ \E filter \in ApiFilters : FindLastOne(filter)
    \/ \E filter \in ApiFilters, set \in Sets :
          FindOneAndUpdate(filter, [set |-> set], NoOptions)
    \/ \E id \in Ids, set \in Sets : FindByIdAndSet(id, set, NoOptions)
    \/ \E filter \in ApiFilters : FindOneAndDelete(filter, NoOptions)
    \/ \E id \in Ids : FindByIdAndDelete(id, NoOptions)
    \/ \E filter \in Filters, search \in {Null, Str("hello")},
          s \in {<<Null, Null>>, <<Str("name"), Num(1)>>, <<Str("name"), Num(2)>>},
          limit \in Limits, page \in Pages :
            FindSmartPage(filter, search, s[1], s[2], limit, page)
    \/ CountReply
    \/ \E empty \in Empties : FindOneReply(empty)
    \/ \E empty \in Empties : UpdateReply(empty)
    \/ \E empty \in Empties : DeleteReply(empty)
    \/ \E e \in StoreErrors : AwaitFail(e)
    \/ CountDone
    \/ \E e \in StoreErrors : CountFail(e)
    \/ FindDone
    \/ \E e \in StoreErrors : FindFail(e)
    \/ Return

SpecApi == InitCompose /\ [][NextApi]_vars

------------------------------------------------------------------------------
(* Properties.                                                               *)

Paging == call.op = "findSmartPage"

Settled == pc \in {"resolved", "rejected"}

NoSearch == call.search \in {Null, Undefined, Str("")}

\* C1 as stated: with search null, undefined or "", the filter sent with count
\* and with find is the caller's filter itself, with no $and around it.
C1_FilterPassedExactly ==
    (Paging /\ NoSearch) =>
        \A k \in 1..Len(issued) : issued[k].filter = call.filter

\* C1 amended: with search null, undefined or "", the filter sent with count and
\* with find is {$and: [filter]}: a conjunction whose only member is the caller's
\* filter, with no text clause.
C1_SingleConjunct ==
    (Paging /\ NoSearch) =>
        \A k \in 1..Len(issued) :
            issued[k].filter = [k |-> "and", args |-> <<call.filter>>]

C1_Witness ==
    /\ Paging /\ call.search = Str("") /\ call.filter = Eq("tag", "a")
    /\ pc = "resolved" /\ Len(issued) = 2

ByIdOps == {"existsById", "findById", "findByIdAndSet", "findByIdAndDelete"}

Malformed(id) == id.t = "string" /\ ~IsHex24(id.s)

\* C2 as stated: a *ById operation coerces its id before the store is called: a
\* malformed string never reaches the store; the lenient variants give null, the
\* strict variant fails with the coercion's error and sends nothing.
C2_CoercedBeforeStore ==
    (call.op \in ByIdOps /\ Malformed(call.id)) =>
        /\ \A k \in 1..Len(issued) : issued[k].filter.id # call.id
        /\ pc = "resolved" => result.value \in {Null, Bool(FALSE)}
        /\ pc = "rejected" => result = idifyStrict(call.id) /\ issued = <<>>

\* C2 amended: a *ById operation sends its id to the store as it was given, in the
\* filter {_id: id} of its one request, whatever the id is; it raises no error of
\* its own, so a rejection is the store's.
C2_IdSentAsGiven ==
    call.op \in ByIdOps =>
        /\ Len(issued) = 1
        /\ issued[1].filter = [k |-> "id", id |-> call.id]
        /\ pc = "rejected" => result \in StoreErrors

C2_Witness ==
    /\ call.op = "findById" /\ Malformed(call.id) /\ Len(call.id.s) = 12
    /\ pc = "resolved" /\ result.value = Null
    /\ issued[1].filter.id = call.id

SentOptions == issued[2].options

\* C3 as stated: find carries a sort option exactly when sortField is provided
\* and sortDirection is 1 or -1.
C3_SortOnlyForUnitDirection ==
    (Paging /\ Len(issued) = 2) =>
        ("sort" \in DOMAIN SentOptions
            <=> (Truthy(call.sort) /\ call.sortOrder \in {Num(1), Num(-1)}))

\* C3 amended: find carries a sort option exactly when sortField is a non-empty
\* string and sortDirection is a number other than 0, and the option is then
\* {[sortField]: sortDirection} with the direction as given.
C3_SortWhenBothTruthy ==
    (Paging /\ Len(issued) = 2) =>
        LET both == /\ call.sort.t = "string" /\ Len(call.sort.s) > 0
                    /\ call.sortOrder.t = "number" /\ call.sortOrder.n # 0
        IN /\ "sort" \in DOMAIN SentOptions <=> both
           /\ both => SentOptions.sort = [field |-> call.sort.s, dir |-> call.sortOrder.n]

C3_Witness ==
    /\ Paging /\ Len(issued) = 2 /\ call.sortOrder = Num(2)
    /\ "sort" \in DOMAIN SentOptions /\ SentOptions.sort.dir = 2

\* C4 as stated: the lenient coercion gives null for null, undefined and every
\* string that is not 24 hex characters, and never fails; the strict one gives
\* null for null and undefined, an identifier instance back unchanged, an error
\* carrying the string for every string that is not 24 hex characters, and the
\* parsed identifier for 24 hex characters.
C4_CoercionTotal ==
    (call.op = "idify" /\ Settled) =>
        LET v == call.str
            absent == v \in {Null, Undefined}
            bad == v.t = "string" /\ ~IsHex24(v.s)
        IN IF call.variant = "part_001"
           THEN /\ absent => result = Returned(Null)
                /\ v.t = "ObjectId" => result = Returned(v)
                /\ bad => /\ ~result.ok
                          /\ Len(result.error.msg) = 3
                          /\ result.error.msg[2] = v.s
                /\ (v.t = "string" /\ IsHex24(v.s)) =>
                      /\ result.ok
                      /\ result.value.t = "ObjectId"
                      /\ \A i \in 1..24 : result.value.hex[i] = Lower(v.s[i])
           ELSE (absent \/ bad) => result = Returned(Null)

PageItems == result.value.items

PageTotal == result.value.total

\* C5: the total is the count of the store as it is when count is answered, the
\* items are the page of the store as it is when find is answered, and the call
\* resolves with that pair after exactly these two requests, whether or not the
\* two agree.
C5_TwoIndependentReads ==
    [][Paging =>
        /\ (pc = "count" /\ pc' = "find") =>
              total' = Len(Matching(store, call.rootFilter))
        /\ (pc = "find" /\ pc' = "resolved") =>
              /\ Len(issued) = 2
              /\ result' = Returned([total |-> total,
                                     items |-> StoreFind(store, call.rootFilter,
                                                         SentOptions)])]_vars

C5_Witness ==
    /\ Paging /\ pc = "resolved" /\ dirty
    /\ PageTotal < Len(PageItems)

EffectiveMatch(d) ==
    /\ Matches(d, call.filter)
    /\ Truthy(call.search) => d.text = call.search.s

\* C6: with no write during the call and pageSize, pageNumber >= 1, total is the
\* number of documents matching the effective filter and items are the documents
\* at positions (pageNumber-1)*pageSize+1 .. pageNumber*pageSize of their order.
\* It is stated of the step that resolves the call: the store may be written
\* again between that step and the caller's reading of the result.
C6_PageOfQuietStore ==
    [][(Paging /\ pc = "find" /\ pc' = "resolved" /\ ~dirty'
            /\ call.limit >= 1 /\ call.page >= 1) =>
        LET m == SelectSeq(store, EffectiveMatch)
            ord == Ordered(m, SentOptions)
            skip == (call.page - 1) * call.limit
            page == result'.value
        IN /\ page.total = Len(m)
           /\ Len(page.items) = Min(call.limit, Max(0, page.total - skip))
           /\ \A j \in 1..Len(page.items) : page.items[j] = ord[skip + j]
           /\ "sort" \in DOMAIN SentOptions =>
                 \A j \in 1..Len(page.items) - 1 :
                    IF call.sortOrder = Num(1)
                    THEN page.items[j].name < page.items[j + 1].name
                    ELSE page.items[j].name > page.items[j + 1].name]_vars

C6_Witness ==
    /\ Paging /\ pc = "resolved" /\ ~dirty
    /\ call.limit = 2 /\ call.page = 2
    /\ call.sort = Str("name") /\ call.sortOrder = Num(-1)
    /\ PageTotal = 5 /\ PageItems = <<Catalogue(4), Catalogue(1)>>

\* C7 as stated: with pageSize = 0 the items are empty and the total is the
\* number of documents matching the effective filter.
C7_ZeroPageSizeEmpty ==
    (Paging /\ pc = "resolved" /\ call.limit = 0) =>
        /\ PageItems = <<>>
        /\ ~dirty => PageTotal = Len(SelectSeq(store, EffectiveMatch))

SingleOps ==
    {"findOne", "findById", "findLastOne", "findOneAndUpdate", "findByIdAndSet",
     "findOneAndDelete", "findByIdAndDelete"}

\* C8: when the store answers a single-document operation without error, the
\* operation resolves: with the answered document itself if there is one, with
\* null if the answer is empty (null or undefined).
C8_AbsenceIsNull ==
    (call.op \in SingleOps /\ Settled /\ reply.ok) =>
        /\ pc = "resolved"
        /\ result = Returned(IF reply.value.t = "object" THEN reply.value ELSE Null)

C8_Witness ==
    /\ call.op = "findOneAndUpdate" /\ pc = "resolved"
    /\ reply = Returned(Undefined) /\ result = Returned(Null)

\* C9: a store failure rejects the call with that same error and ends it: each
\* request is issued at most once, find is issued only once count has succeeded,
\* and a call whose count or find failed resolves with no page.
C9_FailurePropagates ==
    (call.op \notin {"idle", "idify"}) =>
        /\ Len(issued) <= (IF Paging THEN 2 ELSE 1)
        /\ ~reply.ok => (pc = "rejected" /\ result = reply)
        /\ pc = "rejected" => (~reply.ok /\ result = reply)
        /\ Paging =>
              /\ issued[1].op = "count"
              /\ Len(issued) = 2 <=> total >= 0
              /\ Len(issued) = 2 => issued[2].op = "find"

C9_Witness ==
    /\ Paging /\ pc = "rejected" /\ Len(issued) = 2 /\ total = 3
    /\ result \in StoreErrors /\ ValidOptions(SentOptions)

\* C10: the effective filter is {$and: [filter]} extended by one clause
\* {$text: {$search: search}} exactly when search is a non-empty string, and
\* count and find are sent the same effective filter.
C10_TextClauseIffSearch ==
    Paging =>
        \A k \in 1..Len(issued) :
            LET f == issued[k].filter
                hasText == \E i \in 1..Len(f.args) : f.args[i].k = "text"
            IN /\ f.k = "and"
               /\ f.args[1] = call.filter
               /\ hasText <=> (call.search.t = "string" /\ Len(call.search.s) > 0)
               /\ hasText => /\ Len(f.args) = 2
                             /\ f.args[2] = [k |-> "text", search |-> call.search]
               /\ ~hasText => Len(f.args) = 1
               /\ f = issued[1].filter

C10_Witness ==
    /\ Paging /\ call.search = Str("hello") /\ call.filter = Eq("tag", "a")
    /\ pc = "resolved" /\ Len(issued) = 2 /\ PageTotal = 1

====
